---- MODULE Spec2Model ----
(***************************************************************************)
(* Model of api/tasks/create_segment_to_index_task.py: the Celery task     *)
(* create_segment_to_index_task(segment_id, keywords).                     *)
(*                                                                         *)
(* Each delivery of the task is one invocation i; the steps of an          *)
(* invocation are the places where it touches a shared store (the          *)
(* database, the two index tiers, redis), so that invocations for the same *)
(* segment interleave between those steps.  A step that can raise chooses  *)
(* nondeterministically between its normal effect and a fault.  The lock   *)
(* store and the first lookup are taken not to raise.                      *)
(***************************************************************************)
EXTENDS Naturals, Sequences, FiniteSets

NumInvocations == 2

Invocations == 1 .. NumInvocations

\* The identifier every invocation is given, and the rows it refers to.
SegmentId  == "S1"
DatasetId  == "DS1"
DocumentId == "DOC1"

\* Python None for an optional value; Some(x) is a value that is present.
None    == << >>
Some(x) == << x >>

\* datetime.datetime.utcnow() read by invocation i: instants are abstracted
\* to the invocation that read the clock.  A timestamp column is None (NULL)
\* until it is stamped.
UtcNow(i) == Some(i)

\* The keywords argument: absent, the empty list, or a list of keywords.
KeywordInputs == { None, Some(<< >>), Some(<< "alpha", "beta" >>) }

\* str(e): the description of a fault is the name of the step that raised.
NoFault == "none"

VARIABLES
    segments,    \* DocumentSegment rows: segment id -> row
    datasets,    \* Dataset rows: dataset id -> row
    documents,   \* Document rows: document id -> row
    redis,       \* keys present in the lock store
    hqLog,       \* calls received by the 'high_quality' index, in order
    ecoLog,      \* calls received by the 'economy' index, in order
    pc,          \* position of each invocation
    keywords,    \* the keywords argument of each invocation
    dataset,     \* segment.dataset as loaded by each invocation
    document,    \* the langchain Document built by each invocation
    e,           \* the fault caught by each invocation's except clause
    outcome,     \* how each invocation ended
    wrote,       \* the statuses each invocation has committed, in order
    released     \* number of redis deletes each invocation has made

vars == << segments, datasets, documents, redis, hqLog, ecoLog, pc, keywords,
           dataset, document, e, outcome, wrote, released >>

shared == << segments, datasets, documents, redis, hqLog, ecoLog >>

----------------------------------------------------------------------------
\* Rows

NewSegment ==
    [ status        |-> "waiting",
      indexing_at   |-> None,
      completed_at  |-> None,
      enabled       |-> TRUE,
      disabled_at   |-> None,
      error         |-> NoFault,
      content       |-> "text",
      index_node_id |-> "node1",
      index_node_hash |-> "hash1",
      document_id   |-> DocumentId,
      dataset_id    |-> DatasetId ]

DatasetRows == [ high_quality : BOOLEAN, economy : BOOLEAN ]

DocumentRows ==
    [ enabled : BOOLEAN, archived : BOOLEAN,
      indexing_status : { "completed", "indexing" } ]

\* A table with at most one row under the key k.
Tables(k, rows) == { [ x \in {} |-> None ] } \cup { [ x \in {k} |-> r ] : r \in rows }

\* Query.update(params) on one row: the named columns change, the rest stay.
Update(row, params) ==
    [ f \in DOMAIN row |-> IF f \in DOMAIN params THEN params[f] ELSE row[f] ]

\* .first() of a lookup by primary key: the row, or None.
First(table, id) == IF id \in DOMAIN table THEN Some(table[id]) ELSE None

----------------------------------------------------------------------------
\* The decisions and values of the task body

\* AlreadyProcessed with a slip: only a finished segment stops the run.
AlreadyProcessedRetriesIndexing(status) ==
    status \notin { "waiting", "indexing" }

\* AlreadyProcessed with a slip: a recorded error does not stop the run.
AlreadyProcessedRetriesError(status) == status \notin { "waiting", "error" }

\* line 34: the run stops when the loaded status is not 'waiting'.
AlreadyProcessed(status) == status # "waiting"

\* line 37: f'segment_{segment.id}_indexing'
IndexingCacheKey(id) == << "segment", id, "indexing" >>

\* lines 41-44
IndexingParams(i) == [ status |-> "indexing", indexing_at |-> UtcNow(i) ]

\* lines 47-55
MakeDocument(seg) ==
    [ page_content |-> seg.content,
      metadata     |-> [ doc_id      |-> seg.index_node_id,
                         doc_hash    |-> seg.index_node_hash,
                         document_id |-> seg.document_id,
                         dataset_id  |-> seg.dataset_id ] ]

\* DocumentInvalid with a slip: the archived flag is not looked at.
DocumentInvalidIgnoresArchived(doc) ==
    ~doc.enabled \/ doc.indexing_status # "completed"

\* line 77
DocumentInvalid(doc) ==
    ~doc.enabled \/ doc.archived \/ doc.indexing_status # "completed"

\* IndexBuilder.get_index(dataset, tier): an index when the dataset has the
\* tier configured, None (FALSE here) when it has not.
GetIndex(ds, tier) == ds[tier]

\* HasKeywords with a slip: an empty list counts as a keyword list.
HasKeywordsNotNone(kw) == kw # None

\* line 90: keywords and len(keywords) > 0
HasKeywords(kw) == kw # None /\ Len(kw[1]) > 0

\* HighQualityCall with a slip: the duplicate check is not asked for.
HighQualityCallNoCheck(i, doc) ==
    [ inv |-> i, op |-> "add_texts", texts |-> Some(<< doc >>),
      duplicate_check |-> None, node_id |-> None, keywords |-> None ]

\* line 87: index.add_texts([document], duplicate_check=True)
HighQualityCall(i, doc) ==
    [ inv |-> i, op |-> "add_texts", texts |-> Some(<< doc >>),
      duplicate_check |-> Some(TRUE), node_id |-> None, keywords |-> None ]

\* lines 90-93: create_segment_keywords(segment.index_node_id, keywords) for
\* a non-empty keyword list, add_texts([document]) otherwise.
EconomyCall(i, seg, doc, kw) ==
    IF HasKeywords(kw)
    THEN [ inv |-> i, op |-> "create_segment_keywords", texts |-> None,
           duplicate_check |-> None, node_id |-> Some(seg.index_node_id),
           keywords |-> Some(kw[1]) ]
    ELSE [ inv |-> i, op |-> "add_texts", texts |-> Some(<< doc >>),
           duplicate_check |-> None, node_id |-> None, keywords |-> None ]

\* lines 96-99
CompletedParams(i) == [ status |-> "completed", completed_at |-> UtcNow(i) ]

\* ErrorParams with a slip: the status is not set.
ErrorParamsNoStatus(i, fault) ==
    [ enabled |-> FALSE, disabled_at |-> UtcNow(i), error |-> fault ]

\* lines 112-115
ErrorParams(i, fault) ==
    [ enabled |-> FALSE, disabled_at |-> UtcNow(i), status |-> "error",
      error |-> fault ]

\* Delete with a slip: a key of another name is deleted.
DeleteOtherKey(keys, key) == keys \ { << "segment", key >> }

\* line 118: redis_client.delete(key)
Delete(keys, key) == keys \ { key }

----------------------------------------------------------------------------
\* Initial state: the segment row, as the enqueuer leaves it, exists or not;
\* its dataset and document exist or not, in any configuration.

Init ==
    /\ segments \in Tables(SegmentId, { NewSegment })
    /\ datasets \in Tables(DatasetId, DatasetRows)
    /\ documents \in Tables(DocumentId, DocumentRows)
    /\ redis = {}
    /\ hqLog = << >>
    /\ ecoLog = << >>
    /\ pc = [ i \in Invocations |-> "idle" ]
    /\ keywords = [ i \in Invocations |-> None ]
    /\ dataset = [ i \in Invocations |-> None ]
    /\ document = [ i \in Invocations |-> None ]
    /\ e = [ i \in Invocations |-> NoFault ]
    /\ outcome = [ i \in Invocations |-> "none" ]
    /\ wrote = [ i \in Invocations |-> << >> ]
    /\ released = [ i \in Invocations |-> 0 ]

Done == { "returned", "raised" }

\* create_segment_to_index_task.delay(segment_id, keywords): a delivery.
\* The enqueuer is expected to set the lock marker of the segment before it
\* dispatches; it may or may not have done so.  Deliveries are numbered in
\* the order in which they start.
Dispatch(i) ==
    /\ pc[i] = "idle"
    /\ \A j \in Invocations : j < i => pc[j] # "idle"
    /\ \E kw \in KeywordInputs : keywords' = [ keywords EXCEPT ![i] = kw ]
    /\ \E marked \in BOOLEAN :
          redis' = IF marked THEN redis \cup { IndexingCacheKey(SegmentId) }
                             ELSE redis
    /\ pc' = [ pc EXCEPT ![i] = "start" ]
    /\ UNCHANGED << segments, datasets, documents, hqLog, ecoLog, dataset,
                    document, e, outcome, wrote, released >>

\* lines 30-37: load the segment; NotFound when there is none, return when
\* its status is not 'waiting'.  Both leave before the try statement.
LoadSegment(i) ==
    /\ pc[i] = "start"
    /\ LET segment == First(segments, SegmentId) IN
        IF segment = None
        THEN /\ pc' = [ pc EXCEPT ![i] = "raised" ]
             /\ outcome' = [ outcome EXCEPT ![i] = "NotFound" ]
        ELSE IF AlreadyProcessed(segment[1].status)
        THEN /\ pc' = [ pc EXCEPT ![i] = "returned" ]
             /\ outcome' = [ outcome EXCEPT ![i] = "AlreadyProcessed" ]
        ELSE /\ pc' = [ pc EXCEPT ![i] = "update_indexing" ]
             /\ UNCHANGED outcome
    /\ UNCHANGED << shared, keywords, dataset, document, e, wrote, released >>

\* A step inside the try statement raises: control goes to the except clause.
Raise(i, fault) ==
    /\ pc' = [ pc EXCEPT ![i] = "except" ]
    /\ e' = [ e EXCEPT ![i] = fault ]

\* lines 41-46: update status and indexing_at, commit.  The update is seen
\* by others only once committed; a fault of either leaves the row as it was.
UpdateIndexing(i) ==
    /\ pc[i] = "update_indexing"
    /\ \E fault \in { NoFault, "update_indexing" } :
        IF fault = NoFault
        THEN /\ segments' = [ segments EXCEPT ![SegmentId] =
                                Update(@, IndexingParams(i)) ]
             /\ wrote' = [ wrote EXCEPT ![i] = Append(@, "indexing") ]
             /\ pc' = [ pc EXCEPT ![i] = "check_eligibility" ]
             /\ UNCHANGED e
        ELSE /\ Raise(i, fault)
             /\ UNCHANGED << segments, wrote >>
    /\ UNCHANGED << datasets, documents, redis, hqLog, ecoLog, keywords,
                    dataset, document, outcome, released >>

\* An early return inside the try statement: on to the finally clause.
Pass(i) ==
    /\ pc' = [ pc EXCEPT ![i] = "finally" ]
    /\ outcome' = [ outcome EXCEPT ![i] = "NotEligible" ]

\* lines 47-84: build the Document from the segment, then look up the
\* dataset and the document of the segment; return when the dataset or the
\* document is missing, or the document is disabled, archived or not
\* completely indexed.  Each of the three can raise, in that order.
CheckEligibility(i) ==
    /\ pc[i] = "check_eligibility"
    /\ \E fault \in { NoFault, "build_document", "get_dataset", "get_document" } :
        LET built == fault \notin { "build_document" }
            ds == IF fault \in { NoFault, "get_document" }
                  THEN First(datasets, segments[SegmentId].dataset_id)
                  ELSE None
            dataset_document == First(documents, segments[SegmentId].document_id)
        IN
        /\ document' = [ document EXCEPT ![i] =
                IF built THEN Some(MakeDocument(segments[SegmentId])) ELSE @ ]
        /\ dataset' = [ dataset EXCEPT ![i] = ds ]
        /\ IF fault \in { "build_document", "get_dataset" }
           THEN Raise(i, fault) /\ UNCHANGED outcome
           ELSE IF ds = None
           THEN Pass(i) /\ UNCHANGED e
           ELSE IF fault = "get_document"
           THEN Raise(i, fault) /\ UNCHANGED outcome
           ELSE IF dataset_document = None
           THEN Pass(i) /\ UNCHANGED e
           ELSE IF DocumentInvalid(dataset_document[1])
           THEN Pass(i) /\ UNCHANGED e
           ELSE /\ pc' = [ pc EXCEPT ![i] = "write_high_quality" ]
                /\ UNCHANGED << e, outcome >>
    /\ UNCHANGED << shared, keywords, wrote, released >>

\* WriteHighQuality with a slip: a fault of the write is swallowed and the
\* run goes on to the economy index.
WriteHighQualityBestEffort(i) ==
    /\ pc[i] = "write_high_quality"
    /\ IF GetIndex(dataset[i][1], "high_quality")
       THEN \E fault \in { NoFault, "high_quality" } :
            IF fault = NoFault
            THEN hqLog' = Append(hqLog, HighQualityCall(i, document[i][1]))
            ELSE UNCHANGED hqLog
       ELSE UNCHANGED hqLog
    /\ pc' = [ pc EXCEPT ![i] = "write_economy" ]
    /\ UNCHANGED << segments, datasets, documents, redis, ecoLog, keywords,
                    dataset, document, e, outcome, wrote, released >>

\* lines 86-87: the high_quality index, when the dataset has one.
WriteHighQuality(i) ==
    /\ pc[i] = "write_high_quality"
    /\ IF GetIndex(dataset[i][1], "high_quality")
       THEN \E fault \in { NoFault, "high_quality" } :
            IF fault = NoFault
            THEN /\ hqLog' = Append(hqLog, HighQualityCall(i, document[i][1]))
                 /\ pc' = [ pc EXCEPT ![i] = "write_economy" ]
                 /\ UNCHANGED e
            ELSE /\ Raise(i, fault)
                 /\ UNCHANGED hqLog
       ELSE /\ pc' = [ pc EXCEPT ![i] = "write_economy" ]
            /\ UNCHANGED << hqLog, e >>
    /\ UNCHANGED << segments, datasets, documents, redis, ecoLog, keywords,
                    dataset, document, outcome, wrote, released >>

\* WriteEconomy with a slip: the index is looked up but never written.
WriteEconomyNotCalled(i) ==
    /\ pc[i] = "write_economy"
    /\ pc' = [ pc EXCEPT ![i] = "update_completed" ]
    /\ UNCHANGED << shared, keywords, dataset, document, e, outcome, wrote,
                    released >>

\* lines 89-93: the economy index, when the dataset has one.
WriteEconomy(i) ==
    /\ pc[i] = "write_economy"
    /\ IF GetIndex(dataset[i][1], "economy")
       THEN \E fault \in { NoFault, "economy" } :
            IF fault = NoFault
            THEN /\ ecoLog' = Append(ecoLog,
                        EconomyCall(i, segments[SegmentId], document[i][1],
                                    keywords[i]))
                 /\ pc' = [ pc EXCEPT ![i] = "update_completed" ]
                 /\ UNCHANGED e
            ELSE /\ Raise(i, fault)
                 /\ UNCHANGED ecoLog
       ELSE /\ pc' = [ pc EXCEPT ![i] = "update_completed" ]
            /\ UNCHANGED << ecoLog, e >>
    /\ UNCHANGED << segments, datasets, documents, redis, hqLog, keywords,
                    dataset, document, outcome, wrote, released >>

\* lines 96-109: update status and completed_at, commit.
UpdateCompleted(i) ==
    /\ pc[i] = "update_completed"
    /\ \E fault \in { NoFault, "update_completed" } :
        IF fault = NoFault
        THEN /\ segments' = [ segments EXCEPT ![SegmentId] =
                                Update(@, CompletedParams(i)) ]
             /\ wrote' = [ wrote EXCEPT ![i] = Append(@, "completed") ]
             /\ pc' = [ pc EXCEPT ![i] = "finally" ]
             /\ outcome' = [ outcome EXCEPT ![i] = "Completed" ]
             /\ UNCHANGED e
        ELSE /\ Raise(i, fault)
             /\ UNCHANGED << segments, wrote, outcome >>
    /\ UNCHANGED << datasets, documents, redis, hqLog, ecoLog, keywords,
                    dataset, document, released >>

\* lines 110-116: the except clause sets the error fields and commits.  The
\* commit is not guarded: when it raises, nothing is persisted and the
\* fault leaves the task after the finally clause.  The name e is unbound
\* when the clause ends.
Except(i) ==
    /\ pc[i] = "except"
    /\ \E committed \in BOOLEAN :
        IF committed
        THEN /\ segments' = [ segments EXCEPT ![SegmentId] =
                                Update(@, ErrorParams(i, e[i])) ]
             /\ wrote' = [ wrote EXCEPT ![i] = Append(@, "error") ]
             /\ outcome' = [ outcome EXCEPT ![i] = "Error" ]
        ELSE /\ outcome' = [ outcome EXCEPT ![i] = "Propagated" ]
             /\ UNCHANGED << segments, wrote >>
    /\ e' = [ e EXCEPT ![i] = NoFault ]
    /\ pc' = [ pc EXCEPT ![i] = "finally" ]
    /\ UNCHANGED << datasets, documents, redis, hqLog, ecoLog, keywords,
                    dataset, document, released >>

\* lines 117-118: delete the lock marker, then return or re-raise.
Finally(i) ==
    /\ pc[i] = "finally"
    /\ redis' = Delete(redis, IndexingCacheKey(SegmentId))
    /\ released' = [ released EXCEPT ![i] = @ + 1 ]
    /\ pc' = [ pc EXCEPT ![i] =
                 IF outcome[i] = "Propagated" THEN "raised" ELSE "returned" ]
    /\ UNCHANGED << segments, datasets, documents, hqLog, ecoLog, keywords,
                    dataset, document, e, outcome, wrote >>

\* A step of the task body.
Step(i) ==
    \/ LoadSegment(i)
    \/ UpdateIndexing(i)
    \/ CheckEligibility(i)
    \/ WriteHighQuality(i)
    \/ WriteEconomy(i)
    \/ UpdateCompleted(i)
    \/ Except(i)
    \/ Finally(i)

\* Deliveries of the task run on a worker pool: any interleaving.
Next ==
    \/ \E i \in Invocations : Dispatch(i)
    \/ \E i \in Invocations : Step(i)

Spec == Init /\ [][Next]_vars

\* Deliveries one at a time: a delivery starts when no other is running.
DispatchSeq(i) ==
    /\ \A j \in Invocations : pc[j] \in { "idle" } \cup Done
    /\ Dispatch(i)

NextSeq ==
    \/ \E i \in Invocations : DispatchSeq(i)
    \/ \E i \in Invocations : Step(i)

SpecSeq == Init /\ [][NextSeq]_vars

\* Any interleaving, with an enqueuer that sets the lock marker before every
\* dispatch.
DispatchMarked(i) ==
    /\ Dispatch(i)
    /\ IndexingCacheKey(SegmentId) \in redis'

NextMarked ==
    \/ \E i \in Invocations : DispatchMarked(i)
    \/ \E i \in Invocations : Step(i)

SpecMarked == Init /\ [][NextMarked]_vars

\* The rest of the application changes the parents of the segment: the
\* dataset or the document is created, deleted or updated.  The task reads
\* them in one step of a delivery, so the changes are taken between
\* deliveries.
ParentChange ==
    /\ \A j \in Invocations : pc[j] \in { "idle" } \cup Done
    /\ \E j \in Invocations : pc[j] \in Done
    /\ \/ /\ datasets' \in Tables(DatasetId, DatasetRows) \ { datasets }
          /\ UNCHANGED documents
       \/ /\ documents' \in Tables(DocumentId, DocumentRows) \ { documents }
          /\ UNCHANGED datasets
    /\ UNCHANGED << segments, redis, hqLog, ecoLog, pc, keywords, dataset,
                    document, e, outcome, wrote, released >>

\* Deliveries one at a time, with parents that change between them.
NextParents ==
    \/ ParentChange
    \/ \E i \in Invocations : DispatchSeq(i)
    \/ \E i \in Invocations : Step(i)

SpecParents == Init /\ [][NextParents]_vars

----------------------------------------------------------------------------
\* Vocabulary of the properties

\* The lock marker of the segment is present.
Marked == IndexingCacheKey(SegmentId) \in redis

\* The segment row (where it exists).
Seg == segments[SegmentId]

\* Invocation i found the segment in 'waiting' and entered the try statement.
PassedGuard(i) ==
    /\ pc[i] \notin { "idle", "start" }
    /\ outcome[i] \notin { "NotFound", "AlreadyProcessed" }

\* Invocation i caught a fault in its except clause.
Faulted(i) == pc[i] = "except" \/ outcome[i] \in { "Error", "Propagated" }

\* The dataset and the document of the segment exist and the document is
\* enabled, not archived and completely indexed.
ParentsEligible ==
    /\ DatasetId \in DOMAIN datasets
    /\ DocumentId \in DOMAIN documents
    /\ documents[DocumentId].enabled
    /\ ~documents[DocumentId].archived
    /\ documents[DocumentId].indexing_status = "completed"

\* A tier is configured for the dataset of the segment.
Configured(tier) == DatasetId \in DOMAIN datasets /\ datasets[DatasetId][tier]

\* The calls a log holds that invocation i made.
CallsOf(log, i) == { k \in 1 .. Len(log) : log[k].inv = i }

\* The Document of the segment, as the index tiers are to receive it.
IndexableUnit ==
    [ page_content |-> "text",
      metadata     |-> [ doc_id |-> "node1", doc_hash |-> "hash1",
                         document_id |-> DocumentId, dataset_id |-> DatasetId ] ]

AllDone == \A i \in Invocations : pc[i] \in Done

----------------------------------------------------------------------------
\* C1: whenever an invocation ends, by returning or by raising, whatever its
\* outcome, the lock marker of the segment is absent at that moment.
C1_MarkerAbsentAtEveryExit ==
    [][ \A i \in Invocations :
          (pc[i] \notin Done /\ pc'[i] \in Done) => ~Marked' ]_vars

\* C2: once two or more invocations for the segment have all ended, in any
\* interleaving, the row holds a status, enabled flag and error that one
\* invocation alone can leave behind: untouched 'waiting', 'indexing' after
\* a skip or an unrecorded fault, 'completed' (enabled, no error), or
\* 'error' (disabled, error populated).
SingleInvocationResults ==
    { << "waiting", TRUE, FALSE >>, << "indexing", TRUE, FALSE >>,
      << "completed", TRUE, FALSE >>, << "error", FALSE, TRUE >> }

C2_Idempotent ==
    (AllDone /\ SegmentId \in DOMAIN segments) =>
        << Seg.status, Seg.enabled, Seg.error # NoFault >>
            \in SingleInvocationResults

\* C3: under any interleaving at most one invocation passes the status
\* guard and commits 'indexing', and each index tier receives at most one
\* write for the segment.
C3_AtMostOneIndexer ==
    /\ Cardinality({ i \in Invocations :
                        \E k \in 1 .. Len(wrote[i]) : wrote[i][k] = "indexing" }) <= 1
    /\ Len(hqLog) <= 1
    /\ Len(ecoLog) <= 1

\* C4: the step of an invocation that finds the segment with a status other
\* than 'waiting' returns, and changes no field of the segment and neither
\* index tier; the invocation has then committed nothing.
C4_NotWaitingIsNoOp ==
    [][ \A i \in Invocations :
          ( /\ pc[i] = "start" /\ pc'[i] # "start"
            /\ SegmentId \in DOMAIN segments
            /\ Seg.status # "waiting" )
          => ( /\ pc'[i] = "returned"
               /\ segments' = segments
               /\ hqLog' = hqLog /\ ecoLog' = ecoLog
               /\ wrote'[i] = << >> ) ]_vars

C4_Witness ==
    \E i \in Invocations :
        /\ pc[i] = "returned" /\ outcome[i] = "AlreadyProcessed"
        /\ Seg.status = "error"

SkippedCleanly(i) ==
    /\ pc[i] = "returned"
    /\ wrote[i] = << "indexing" >>
    /\ Seg.status = "indexing"
    /\ Seg.indexing_at = Some(i)
    /\ CallsOf(hqLog, i) = {} /\ CallsOf(ecoLog, i) = {}
    /\ released[i] = 1

C7_IndexFaultRecorded ==
    [][ \A i \in Invocations :
          /\ ( pc[i] = "except" /\ pc'[i] # "except"
               /\ e[i] \in { "high_quality", "economy" } )
             => ( /\ Seg'.status = "error"
                  /\ Seg'.enabled = FALSE
                  /\ Seg'.disabled_at # None
                  /\ Seg'.error = e[i]
                  /\ Seg'.completed_at = Seg.completed_at )
          /\ ( pc[i] = "finally" /\ pc'[i] # "finally" )
             => ( pc'[i] \in Done /\ ~Marked' ) ]_vars

\* C8: an invocation ends by raising exactly when the segment was not found.
C8_OnlyNotFoundPropagates ==
    \A i \in Invocations :
        pc[i] \in Done => (pc[i] = "raised" <=> outcome[i] = "NotFound")

\* C9: once an invocation is past the economy step without a fault, with
\* the economy tier configured, the tier has received exactly one call:
\* create_segment_keywords with the node identifier of the segment and the
\* given keywords when the keyword list is non-empty, add_texts with the
\* Indexable Unit when it is absent or empty.
C9_KeywordTier ==
    \A i \in Invocations :
        ( (pc[i] = "update_completed" \/ outcome[i] = "Completed")
          /\ Configured("economy") ) =>
            /\ Len(ecoLog) = 1
            /\ IF keywords[i] \in { None, Some(<< >>) }
               THEN /\ ecoLog[1].op = "add_texts"
                    /\ ecoLog[1].texts = Some(<< IndexableUnit >>)
               ELSE /\ ecoLog[1].op = "create_segment_keywords"
                    /\ ecoLog[1].node_id = Some("node1")
                    /\ ecoLog[1].keywords = keywords[i]

C9_Witness ==
    \E i \in Invocations :
        /\ pc[i] = "update_completed" /\ Configured("economy")
        /\ keywords[i] = Some(<< "alpha", "beta" >>)
        /\ Len(ecoLog) = 1 /\ ecoLog[1].op = "create_segment_keywords"

\* C10: an invocation that found the segment 'waiting' with eligible
\* parents and ended without a fault leaves every configured tier with
\* exactly one write and every other tier with none, the high-fidelity
\* write asking for the duplicate check, and the segment 'completed' with
\* completed_at set.
C10_EachConfiguredTierOnce ==
    \A i \in Invocations :
        (pc[i] \in Done /\ PassedGuard(i) /\ ParentsEligible /\ ~Faulted(i)) =>
            /\ Len(hqLog) = (IF Configured("high_quality") THEN 1 ELSE 0)
            /\ Len(ecoLog) = (IF Configured("economy") THEN 1 ELSE 0)
            /\ \A k \in 1 .. Len(hqLog) :
                    /\ hqLog[k].op = "add_texts"
                    /\ hqLog[k].texts = Some(<< IndexableUnit >>)
                    /\ hqLog[k].duplicate_check = Some(TRUE)
            /\ Seg.status = "completed"
            /\ Seg.completed_at # None

C10_Witness ==
    \E i \in Invocations :
        /\ pc[i] \in Done /\ PassedGuard(i) /\ ParentsEligible /\ ~Faulted(i)
        /\ Configured("high_quality") /\ ~Configured("economy")
        /\ Len(hqLog) = 1 /\ Seg.status = "completed"

----------------------------------------------------------------------------
\* Invocation i has committed the status st.
Committed(i, st) == \E k \in 1 .. Len(wrote[i]) : wrote[i][k] = st

\* The step taken commits a status on behalf of invocation i.
Commits(i) == wrote'[i] # wrote[i]

\* The status that step commits.
CommittedStatus(i) == wrote'[i][Len(wrote'[i])]

\* Invocation i is past the status guard and has not yet recorded its outcome.
Indexing(i) ==
    pc[i] \in { "update_indexing", "check_eligibility", "write_high_quality",
                "write_economy", "update_completed", "except" }

\* C11: a step commits 'indexing' only on a row whose persisted status is
\* 'waiting', and a step commits 'completed' or 'error' on a row that has
\* been moved to 'indexing' only for the invocation that moved it there.
C11_GuardedTransitions ==
    [][ \A i \in Invocations :
          Commits(i) =>
            /\ CommittedStatus(i) = "indexing" => Seg.status = "waiting"
            /\ ( CommittedStatus(i) \in { "completed", "error" }
                 /\ Seg.indexing_at # None )
               => Seg.indexing_at = Some(i) ]_vars

\* C12: once the persisted status is 'completed' or 'error', no step changes
\* it.
C12_TerminalStatuses ==
    [][ ( SegmentId \in DOMAIN segments
          /\ Seg.status \in { "completed", "error" } )
        => Seg'.status = Seg.status ]_vars

\* C13: an invocation writes the economy tier only from the economy step,
\* after its high-fidelity write when that tier is configured; an
\* invocation that has left the tier steps without a high-fidelity write,
\* though the tier is configured, has made no economy write; and the step
\* that records 'error' for a fault of the economy write leaves the
\* high-fidelity write of the invocation in place.
C13_SequentialFailFast ==
    [][ \A i \in Invocations :
          /\ CallsOf(ecoLog', i) # CallsOf(ecoLog, i)
             => ( /\ pc[i] = "write_economy"
                  /\ GetIndex(dataset[i][1], "high_quality")
                        => CallsOf(hqLog, i) # {} )
          /\ ( pc'[i] \in { "except", "finally" } \cup Done
               /\ PassedGuard(i)'
               /\ dataset'[i] # None
               /\ GetIndex(dataset'[i][1], "high_quality")
               /\ CallsOf(hqLog', i) = {} )
             => CallsOf(ecoLog', i) = {}
          /\ ( pc[i] = "except" /\ e[i] = "economy" /\ pc'[i] # "except" )
             => ( /\ hqLog' = hqLog
                  /\ GetIndex(dataset[i][1], "high_quality")
                        => CallsOf(hqLog', i) # {}
                  /\ Commits(i) => Seg'.status = "error" ) ]_vars

C13_Witness ==
    \E i \in Invocations :
        /\ pc[i] \in Done /\ outcome[i] = "Error"
        /\ Seg.status = "error" /\ Seg.error = "economy"
        /\ CallsOf(hqLog, i) # {} /\ CallsOf(ecoLog, i) = {}

\* C14: an invocation that passed the status guard deletes the lock marker
\* once, in its last step, with the marker absent after it: the outcome it
\* has recorded by then is its last commit ('completed' on success, 'error'
\* on a recorded fault, 'indexing' on a skip), and it commits nothing after
\* the delete.
C14_ReleaseAfterOutcome ==
    [][ \A i \in Invocations :
          /\ released'[i] # released[i]
             => ( /\ released[i] = 0 /\ released'[i] = 1
                  /\ pc'[i] \in Done
                  /\ ~Marked'
                  /\ outcome[i] = "Completed"
                        => wrote[i][Len(wrote[i])] = "completed"
                  /\ outcome[i] = "Error"
                        => wrote[i][Len(wrote[i])] = "error"
                  /\ outcome[i] = "NotEligible"
                        => wrote[i][Len(wrote[i])] = "indexing" )
          /\ Commits(i) => released[i] = 0
          /\ (pc'[i] \in Done /\ PassedGuard(i)') => released'[i] = 1 ]_vars

C14_Witness ==
    \E i \in Invocations :
        /\ pc[i] = "returned" /\ outcome[i] = "Error"
        /\ released[i] = 1 /\ ~Marked

\* Some invocation has ended with an eligibility skip.
Skipped == \E j \in Invocations : pc[j] \in Done /\ outcome[j] = "NotEligible"

\* C15: once an invocation has ended with an eligibility skip, no step of a
\* later invocation changes the segment row, which stays 'indexing', or
\* writes an index tier, whatever the parents have become.
C15_SkippedStaysIndexing ==
    [][ Skipped =>
          /\ Seg.status = "indexing"
          /\ segments' = segments
          /\ hqLog' = hqLog /\ ecoLog' = ecoLog ]_vars

C15_Witness ==
    \E i, j \in Invocations :
        /\ pc[j] \in Done /\ outcome[j] = "NotEligible"
        /\ pc[i] = "returned" /\ outcome[i] = "AlreadyProcessed"
        /\ ParentsEligible
        /\ Seg.status = "indexing"

\* C16: an invocation that has written an index tier has committed
\* 'indexing' before, and while the persisted status is 'completed' every
\* configured tier holds a write for the segment.
C16_CommitsAroundWrites ==
    /\ \A i \in Invocations :
          (CallsOf(hqLog, i) # {} \/ CallsOf(ecoLog, i) # {}) =>
              wrote[i] # << >> /\ wrote[i][1] = "indexing"
    /\ (SegmentId \in DOMAIN segments /\ Seg.status = "completed") =>
          /\ Configured("high_quality") => Len(hqLog) >= 1
          /\ Configured("economy") => Len(ecoLog) >= 1

C16_Witness ==
    /\ SegmentId \in DOMAIN segments /\ Seg.status = "completed"
    /\ Configured("high_quality") /\ Configured("economy")
    /\ Len(hqLog) = 1 /\ Len(ecoLog) = 1

\* C17: the step by which the except clause handles a fault raised before
\* the eligibility decision persists status 'error' with enabled = false,
\* whatever the parents are and whether or not 'indexing' was persisted; and
\* an invocation skips only when no step has raised.
C17_EarlyFaultRecorded ==
    [][ \A i \in Invocations :
          /\ ( pc[i] = "except" /\ pc'[i] # "except"
               /\ e[i] \in { "update_indexing", "build_document",
                              "get_dataset", "get_document" } )
             => ( Seg'.status = "error" /\ Seg'.enabled = FALSE )
          /\ ( outcome'[i] = "NotEligible" /\ outcome[i] # "NotEligible" )
             => ( e[i] = NoFault /\ pc[i] = "check_eligibility" ) ]_vars

\* C18: in every state the error field is populated, enabled is false and
\* disabled_at is set exactly when the status is 'error', and a 'completed'
\* segment has completed_at and indexing_at set.
C18_FieldsAgreeWithStatus ==
    SegmentId \in DOMAIN segments =>
        /\ (Seg.status = "error") <=> (Seg.error # NoFault)
        /\ (Seg.status = "error") <=> (Seg.enabled = FALSE)
        /\ (Seg.status = "error") <=> (Seg.disabled_at # None)
        /\ Seg.status = "completed" =>
              (Seg.completed_at # None /\ Seg.indexing_at # None)

\* C19: with the marker set before every dispatch, the marker is present
\* whenever some invocation is past the status guard and has not yet
\* recorded its outcome.
C19_MarkerCoversIndexing ==
    (\E i \in Invocations : Indexing(i)) => Marked

====
